---- MODULE Spec2Model ----
(***************************************************************************)
(* Android call log converter: PhoneCall.from_json (record decoder) and    *)
(* PhoneCall.csv_header / csv_row / convert_to_csv (CSV renderer) of       *)
(* src/calllog_exporter.py.                                                *)
(*                                                                         *)
(* Conventions of the model                                                *)
(*  - A JSON / Python value is a tagged record: [t |-> "str", s |-> chars],*)
(*    [t |-> "int", n |-> i], [t |-> "bool", b |-> B], [t |-> "null"].     *)
(*    A str is the sequence of its characters, so that int(str) is a real  *)
(*    parse and str(int) a real formatting.                                *)
(*  - Instants are integer milliseconds counted from 2024-03-01T00:00:00Z  *)
(*    (the Unix epoch shifted by 1709251200000 ms so that they fit the     *)
(*    model checker's integers); all modelled instants lie in March 2024,  *)
(*    when Europe/Vienna is on CET.                                        *)
(*  - A rendered CSV cell is a sequence of text chunks whose concatenation *)
(*    is the cell's text.                                                  *)
(***************************************************************************)
EXTENDS Integers, Sequences, FiniteSets, TLC

\* Longest batch handed to convert_to_csv for the range walk.
MaxCalls == 3
\* Longest batch in the decoding and library-use runs.
MaxBatch == 2

-----------------------------------------------------------------------------
(* Python values *)

None == [t |-> "null"]
StrV(chars) == [t |-> "str", s |-> chars]
IntV(i) == [t |-> "int", n |-> i]
BoolV(v) == [t |-> "bool", b |-> v]

DigitChars == <<"0", "1", "2", "3", "4", "5", "6", "7", "8", "9">>
IsDigit(c) == \E d \in 1..10 : DigitChars[d] = c
DigitVal(c) == (CHOOSE d \in 1..10 : DigitChars[d] = c) - 1

RECURSIVE ParseDigits(_, _)
\* value of a non-empty all-digit character sequence, most significant first
ParseDigits(chars, acc) ==
    IF chars = <<>> THEN acc
    ELSE ParseDigits(Tail(chars), acc * 10 + DigitVal(Head(chars)))

\* int(value): [err |-> "none", n |-> i] or [err |-> the exception type].
PyInt(value) ==
    CASE value.t = "int" -> [err |-> "none", n |-> value.n]
      [] value.t = "bool" -> [err |-> "none", n |-> IF value.b THEN 1 ELSE 0]
      [] value.t = "null" -> [err |-> "TypeError", n |-> 0]
      [] value.t = "str" ->
            LET signed == value.s # <<>> /\ Head(value.s) \in {"-", "+"}
                digits == IF signed THEN Tail(value.s) ELSE value.s
            IN  IF digits = <<>> \/ \E k \in 1..Len(digits) : ~IsDigit(digits[k])
                THEN [err |-> "ValueError", n |-> 0]
                ELSE [err |-> "none",
                      n |-> IF signed /\ Head(value.s) = "-"
                            THEN 0 - ParseDigits(digits, 0)
                            ELSE ParseDigits(digits, 0)]

RECURSIVE FormatNat(_)
FormatNat(i) ==
    IF i < 10 THEN <<DigitChars[i + 1]>>
    ELSE FormatNat(i \div 10) \o <<DigitChars[(i % 10) + 1]>>

\* "%d" % i
FormatInt(i) == IF i < 0 THEN <<"-">> \o FormatNat(0 - i) ELSE FormatNat(i)

\* "%02d" % i, for i >= 0
Pad2(i) == IF i < 10 THEN <<"0">> \o FormatNat(i) ELSE FormatNat(i)

\* str(value) of a plain JSON value
PyStr(value) ==
    CASE value.t = "str" -> value.s
      [] value.t = "int" -> FormatInt(value.n)
      [] value.t = "bool" -> IF value.b THEN <<"True">> ELSE <<"False">>
      [] value.t = "null" -> <<"None">>

\* bool(value) of a plain JSON value
PyBool(value) ==
    CASE value.t = "str" -> value.s # <<>>
      [] value.t = "int" -> value.n # 0
      [] value.t = "bool" -> value.b
      [] value.t = "null" -> FALSE

-----------------------------------------------------------------------------
(* Time *)

SECOND == 1000
MINUTE == 60 * SECOND
HOUR == 60 * MINUTE
DAY == 24 * HOUR

\* utcoffset of tz.fromutc(...) in March 2024: CET
CET_OFFSET == 60 * MINUTE
\* utcoffset of the bare pytz zone object used as tzinfo= : Vienna's first
\* entry, local mean time +1:05
LMT_OFFSET == 65 * MINUTE

\* datetime.utcfromtimestamp(ms/1000).replace(tzinfo=UTC).astimezone(tz)
DateTime(ms) == [t |-> "datetime", ms |-> ms]
\* timedelta(seconds=sec)
TimeDelta(sec) == [t |-> "timedelta", sec |-> sec]

\* wall clock of an instant in tz
LocalMs(ms) == ms + CET_OFFSET
\* calendar day of an instant in tz, in days since 2024-03-01
LocalDay(ms) == LocalMs(ms) \div DAY

\* a datetime.date, as days since 2024-03-01
Date(d) == [t |-> "date", day |-> d]

\* datetime.combine(d, time(), tzinfo=tz) as an instant
CombineMidnight(d) == d.day * DAY - LMT_OFFSET

-----------------------------------------------------------------------------
(* Enumerations and flag sets *)

\* value -> the member's name, split at "_"
CallType ==
    1 :> <<"INCOMING">> @@ 2 :> <<"OUTGOING">> @@ 3 :> <<"MISSED">> @@
    4 :> <<"VOICEMAIL">> @@ 5 :> <<"REJECTED">> @@ 6 :> <<"BLOCKED">> @@
    7 :> <<"ANSWERED", "EXTERNALLY">>

NumberType ==
    0 :> <<"", "">> @@ 1 :> <<"HOME">> @@ 2 :> <<"MOBILE">> @@ 3 :> <<"WORK">> @@
    4 :> <<"FAX", "WORK">> @@ 5 :> <<"FAX", "HOME">> @@ 6 :> <<"PAGER">> @@
    7 :> <<"OTHER">> @@ 8 :> <<"CALLBACK">> @@ 9 :> <<"CAR">> @@
    10 :> <<"COMPANY", "MAIN">> @@ 11 :> <<"ISDN">> @@ 12 :> <<"MAIN">> @@
    13 :> <<"OTHER", "FAX">> @@ 14 :> <<"RADIO">> @@ 15 :> <<"TELEX">> @@
    16 :> <<"TTY", "TDD">> @@ 17 :> <<"WORK", "MOBILE">> @@
    18 :> <<"WORK", "PAGER">> @@ 19 :> <<"ASSISTANT">> @@ 20 :> <<"MMS">>

BlockedReason ==
    0 :> <<"NOT", "BLOCKED">> @@ 1 :> <<"CALL", "SCREENING", "SERVICE">> @@
    2 :> <<"DIRECT", "TO", "VOICEMAIL">> @@ 3 :> <<"BLOCKED", "NUMBER">> @@
    4 :> <<"UNKNOWN", "NUMBER">> @@ 5 :> <<"RESTRICTED", "NUMBER">> @@
    6 :> <<"PAY", "PHONE">> @@ 7 :> <<"NOT", "IN", "CONTACTS">>

NumberPresentation ==
    1 :> <<"ALLOWED">> @@ 2 :> <<"RESTRICTED">> @@ 3 :> <<"UNKNOWN">> @@
    4 :> <<"PAYPHONE">> @@ 5 :> <<"UNAVAILABLE">>

\* the members in definition order
MissedReason == <<
    [bit |-> 0, name |-> <<"NOT", "MISSED">>],
    [bit |-> 1, name |-> <<"AUTO", "MISSED", "EMERGENCY", "CALL">>],
    [bit |-> 2, name |-> <<"AUTO", "MISSED", "MAXIMUM", "RINGING">>],
    [bit |-> 4, name |-> <<"AUTO", "MISSED", "MAXIMUM", "DIALING">>],
    [bit |-> 65536, name |-> <<"USER", "MISSED", "NO", "ANSWER">>],
    [bit |-> 131072, name |-> <<"USER", "MISSED", "SHORT", "RING">>],
    [bit |-> 262144, name |-> <<"USER", "MISSED", "DND", "MODE">>],
    [bit |-> 524288, name |-> <<"USER", "MISSED", "LOW", "RING", "VOLUME">>],
    [bit |-> 1048576, name |-> <<"USER", "MISSED", "NO", "VIBRATE">>],
    [bit |-> 2097152,
     name |-> <<"USER", "MISSED", "CALL", "SCREENING", "SERVICE", "SILENCED">>],
    [bit |-> 4194304, name |-> <<"USER", "MISSED", "CALL", "FILTERS", "TIMEOUT">>] >>

CallFeatures == <<
    [bit |-> 16, name |-> <<"ASSISTED", "DIALING", "USED">>],
    [bit |-> 4, name |-> <<"HD", "CALL">>],
    [bit |-> 2, name |-> <<"PULLED", "EXTERNALLY">>],
    [bit |-> 32, name |-> <<"RTT">>],
    [bit |-> 1, name |-> <<"VIDEO">>],
    [bit |-> 64, name |-> <<"VOLTE">>],
    [bit |-> 8, name |-> <<"WIFI">>] >>

EnumClasses == {"CallType", "NumberType", "BlockedReason", "NumberPresentation"}
FlagClasses == {"MissedReason", "CallFeatures"}

EnumMembers(cls) ==
    CASE cls = "CallType" -> CallType
      [] cls = "NumberType" -> NumberType
      [] cls = "BlockedReason" -> BlockedReason
      [] cls = "NumberPresentation" -> NumberPresentation

FlagMembers(cls) ==
    CASE cls = "MissedReason" -> MissedReason
      [] cls = "CallFeatures" -> CallFeatures

\* whether the bit `bit` (a power of two) is set in i >= 0
BitSet(i, bit) == (i \div bit) % 2 = 1

\* the single-bit flags a flag set defines
FlagBits(cls) ==
    {FlagMembers(cls)[k].bit : k \in 1..Len(FlagMembers(cls))} \ {0}

RECURSIVE SetBits(_, _)
\* the set bits of i >= 0, as powers of two from `bit` up
SetBits(i, bit) ==
    IF i = 0 THEN {}
    ELSE (IF i % 2 = 1 THEN {bit} ELSE {}) \cup SetBits(i \div 2, bit * 2)

\* the bits of i no member of the flag set defines
UnknownBits(cls, i) == SetBits(i, 1) \ FlagBits(cls)

\* Flag's all-bits mask: every bit up to the highest defined one
FlagAllBits(cls) ==
    2 * (CHOOSE b \in FlagBits(cls) : \A c \in FlagBits(cls) : c <= b) - 1

\* cls(i) for an IntEnum or IntFlag class cls: the enum lookup by value.
\* An IntEnum raises ValueError for a value that is no member.  An IntFlag
\* has boundary KEEP: every integer is accepted, undefined bits are kept, a
\* negative one is taken modulo the all-bits mask.
EnumCall(cls, i) ==
    IF cls \in FlagClasses
    THEN [err |-> "none",
          val |-> [t |-> "flag", cls |-> cls,
                   n |-> IF i < 0 THEN FlagAllBits(cls) + 1 + i ELSE i]]
    ELSE IF i \in DOMAIN EnumMembers(cls)
         THEN [err |-> "none", val |-> [t |-> "enum", cls |-> cls, n |-> i]]
         ELSE [err |-> "ValueError", val |-> None]

-----------------------------------------------------------------------------
(* The PhoneCall dataclass *)

Req(name, type) ==
    [name |-> name, type |-> type, hasDefault |-> FALSE, default |-> None]
Opt(name, type, default) ==
    [name |-> name, type |-> type, hasDefault |-> TRUE, default |-> default]

\* dataclasses.fields(PhoneCall), in declaration order
Fields == <<
    Req("date", "datetime"),
    Req("phone_account_hidden", "bool"),
    Req("photo_id", "int"),
    Req("subscription_component_name", "str"),
    Req("type", "CallType"),
    Req("presentation", "NumberPresentation"),
    Req("duration", "timedelta"),
    Req("subscription_id", "int"),
    Req("is_read", "bool"),
    Req("number", "str"),
    Req("features", "CallFeatures"),
    Req("via_number", "str"),
    Req("last_modified", "datetime"),
    Req("new", "bool"),
    Req("missed_reason", "MissedReason"),
    Req("phone_account_address", "str"),
    Req("add_for_all_users", "bool"),
    Req("block_reason", "BlockedReason"),
    Req("priority", "int"),
    Req("countryiso", "str"),
    Req("is_call_log_phone_account_migration_pending", "bool"),
    Req("post_dial_digits", "str"),
    Req("transcription_state", "bool"),
    Req("_id", "int"),
    Opt("subject", "str", None),
    Opt("matched_number", "str", None),
    Opt("formatted_nummer", "str", None),
    Opt("normalized_number", "str", None),
    Opt("lookup_uri", "str", None),
    Opt("name", "str", StrV(<<>>)),
    Opt("display_name", "str", StrV(<<>>)),
    Opt("numbertype", "NumberType", None),
    Opt("data_usage", "int", None),
    Opt("geocoded_location", "str", StrV(<<>>)) >>

FieldNames == {Fields[k].name : k \in 1..Len(Fields)}
FieldOf(name) == Fields[CHOOSE k \in 1..Len(Fields) : Fields[k].name = name]
RequiredFields == {Fields[k].name : k \in {j \in 1..Len(Fields) : ~Fields[j].hasDefault}}
OptionalFields == FieldNames \ RequiredFields

default_csv_fields == <<
    "date", "time", "type", "duration", "number", "display_name", "numbertype",
    "presentation", "missed_reason", "block_reason", "features", "countryiso">>

\* cls(**call): the dataclass constructor; an attribute not passed takes the
\* field's declared default
PhoneCall(call) ==
    [f \in FieldNames |-> IF f \in DOMAIN call THEN call[f] ELSE FieldOf(f).default]

-----------------------------------------------------------------------------
(* PhoneCall.from_json *)

\* isinstance(value, field.type) for a JSON value and a plain or enum type
IsInstance(value, type) ==
    CASE type = "int" -> value.t \in {"int", "bool"}
      [] type = "str" -> value.t = "str"
      [] type = "bool" -> value.t = "bool"
      [] OTHER -> FALSE

\* field.type(value) of the coercion branch
Coerce(type, value) ==
    CASE type = "int" ->
            LET r == PyInt(value)
            IN  [err |-> r.err, val |-> IF r.err = "none" THEN IntV(r.n) ELSE None]
      [] type = "str" -> [err |-> "none", val |-> StrV(PyStr(value))]
      [] type = "bool" -> [err |-> "none", val |-> BoolV(PyBool(value))]
      [] OTHER ->
            \* an enum or flag class called on a non-str value
            IF value.t \in {"int", "bool"}
            THEN EnumCall(type, PyInt(value).n)
            ELSE [err |-> "ValueError", val |-> None]

\* the body of the try block for one field: [err, val]
DecodeValue(field, value) ==
    CASE field.type = "datetime" ->
            LET r == PyInt(value)
            IN  [err |-> r.err, val |-> IF r.err = "none" THEN DateTime(r.n) ELSE None]
      [] field.type = "timedelta" ->
            LET r == PyInt(value)
            IN  [err |-> r.err, val |-> IF r.err = "none" THEN TimeDelta(r.n) ELSE None]
      [] field.type \in EnumClasses \cup FlagClasses /\ value.t = "str" ->
            LET r == PyInt(value)
            IN  IF r.err = "none" THEN EnumCall(field.type, r.n)
                ELSE [err |-> r.err, val |-> None]
      [] field.type = "bool" /\ value.t = "str" ->
            [err |-> "none", val |-> BoolV(value.s = <<"1">>)]
      [] OTHER ->
            IF ~IsInstance(value, field.type) THEN Coerce(field.type, value)
            ELSE [err |-> "none", val |-> value]

\* SkipField without the test for a declared default: every absent key is
\* skipped
SkipFieldAbsent(field, obj) == field.name \notin DOMAIN obj

\* `field.default is not MISSING and key not in obj`: the field is skipped
SkipField(field, obj) == field.hasDefault /\ field.name \notin DOMAIN obj

\* the except clause: only a TypeError is caught (reported, then re-raised)
Reported(err) == err = "TypeError"

RECURSIVE DecodeFields(_, _, _)
\* the loop over the fields of one object, from field k on, with the
\* attributes decoded so far.  The result is [err, key, raw, call]: err is
\* "none" and call the constructor's arguments, or err is the exception that
\* left the loop, at field `key` holding the raw value `raw`.
DecodeFields(obj, k, call) ==
    IF k > Len(Fields) THEN [err |-> "none", key |-> "", raw |-> None, call |-> call]
    ELSE LET field == Fields[k]
             key == field.name
         IN  IF SkipField(field, obj) THEN DecodeFields(obj, k + 1, call)
             ELSE IF key \notin DOMAIN obj
             THEN \* obj.pop(key), outside the try block
                  [err |-> "KeyError", key |-> key, raw |-> None, call |-> call]
             ELSE LET r == DecodeValue(field, obj[key])
                  IN  IF r.err # "none"
                      THEN [err |-> r.err, key |-> key, raw |-> obj[key], call |-> call]
                      ELSE DecodeFields(obj, k + 1, call @@ (key :> r.val))

\* one iteration of `for obj in ...`
DecodeObj(obj) == DecodeFields(obj, 1, <<>>)

\* the names the exception's own message holds: a KeyError's is the key, an
\* enum lookup's ValueError names the enumeration class
MessageNames(err, field, raw) ==
    CASE err = "KeyError" -> {field.name}
      [] err = "ValueError" /\ field.type \in EnumClasses
            /\ PyInt(raw).err # "ValueError" -> {field.type}
      [] OTHER -> {}

-----------------------------------------------------------------------------
(* Text: str.replace('_', ' ').split(' ') and str.capitalize() *)

\* name.replace('_', ' ').split(' ') of the names that hold an underscore
NameWords ==
    "phone_account_hidden" :> <<"phone", "account", "hidden">> @@
    "photo_id" :> <<"photo", "id">> @@
    "subscription_component_name" :> <<"subscription", "component", "name">> @@
    "subscription_id" :> <<"subscription", "id">> @@
    "is_read" :> <<"is", "read">> @@ "via_number" :> <<"via", "number">> @@
    "last_modified" :> <<"last", "modified">> @@
    "missed_reason" :> <<"missed", "reason">> @@
    "phone_account_address" :> <<"phone", "account", "address">> @@
    "add_for_all_users" :> <<"add", "for", "all", "users">> @@
    "block_reason" :> <<"block", "reason">> @@
    "is_call_log_phone_account_migration_pending" :> <<"is", "call", "log", "phone", "account", "migration", "pending">> @@
    "post_dial_digits" :> <<"post", "dial", "digits">> @@
    "transcription_state" :> <<"transcription", "state">> @@
    "_id" :> <<"", "id">> @@ "matched_number" :> <<"matched", "number">> @@
    "formatted_nummer" :> <<"formatted", "nummer">> @@
    "normalized_number" :> <<"normalized", "number">> @@
    "lookup_uri" :> <<"lookup", "uri">> @@
    "display_name" :> <<"display", "name">> @@
    "data_usage" :> <<"data", "usage">> @@
    "geocoded_location" :> <<"geocoded", "location">> @@
    "formatted_numer" :> <<"formatted", "numer">>

\* w.capitalize() on the words of the column and member names
CapitalizeTable ==
    "" :> "" @@ "ALLOWED" :> "Allowed" @@ "ANSWER" :> "Answer" @@
    "ANSWERED" :> "Answered" @@ "ASSISTANT" :> "Assistant" @@
    "ASSISTED" :> "Assisted" @@ "AUTO" :> "Auto" @@ "BLOCKED" :> "Blocked" @@
    "CALL" :> "Call" @@ "CALLBACK" :> "Callback" @@ "CAR" :> "Car" @@
    "COMPANY" :> "Company" @@ "CONTACTS" :> "Contacts" @@
    "DIALING" :> "Dialing" @@ "DIRECT" :> "Direct" @@ "DND" :> "Dnd" @@
    "EMERGENCY" :> "Emergency" @@ "EXTERNALLY" :> "Externally" @@
    "FAX" :> "Fax" @@ "FILTERS" :> "Filters" @@ "HD" :> "Hd" @@
    "HOME" :> "Home" @@ "IN" :> "In" @@ "INCOMING" :> "Incoming" @@
    "ISDN" :> "Isdn" @@ "LOW" :> "Low" @@ "MAIN" :> "Main" @@
    "MAXIMUM" :> "Maximum" @@ "MISSED" :> "Missed" @@ "MMS" :> "Mms" @@
    "MOBILE" :> "Mobile" @@ "MODE" :> "Mode" @@ "NO" :> "No" @@
    "NOT" :> "Not" @@ "NUMBER" :> "Number" @@ "OTHER" :> "Other" @@
    "OUTGOING" :> "Outgoing" @@ "PAGER" :> "Pager" @@ "PAY" :> "Pay" @@
    "PAYPHONE" :> "Payphone" @@ "PHONE" :> "Phone" @@ "PULLED" :> "Pulled" @@
    "RADIO" :> "Radio" @@ "REJECTED" :> "Rejected" @@
    "RESTRICTED" :> "Restricted" @@ "RING" :> "Ring" @@
    "RINGING" :> "Ringing" @@ "RTT" :> "Rtt" @@ "SCREENING" :> "Screening" @@
    "SERVICE" :> "Service" @@ "SHORT" :> "Short" @@
    "SILENCED" :> "Silenced" @@ "TDD" :> "Tdd" @@ "TELEX" :> "Telex" @@
    "TIMEOUT" :> "Timeout" @@ "TO" :> "To" @@ "TTY" :> "Tty" @@
    "UNAVAILABLE" :> "Unavailable" @@ "UNKNOWN" :> "Unknown" @@
    "USED" :> "Used" @@ "USER" :> "User" @@ "VIBRATE" :> "Vibrate" @@
    "VIDEO" :> "Video" @@ "VOICEMAIL" :> "Voicemail" @@ "VOLTE" :> "Volte" @@
    "VOLUME" :> "Volume" @@ "WIFI" :> "Wifi" @@ "WORK" :> "Work" @@
    "account" :> "Account" @@ "add" :> "Add" @@ "address" :> "Address" @@
    "all" :> "All" @@ "block" :> "Block" @@ "bogus" :> "Bogus" @@
    "call" :> "Call" @@ "component" :> "Component" @@
    "countryiso" :> "Countryiso" @@ "data" :> "Data" @@ "date" :> "Date" @@
    "dial" :> "Dial" @@ "digits" :> "Digits" @@ "display" :> "Display" @@
    "duration" :> "Duration" @@ "features" :> "Features" @@ "for" :> "For" @@
    "formatted" :> "Formatted" @@ "geocoded" :> "Geocoded" @@
    "hidden" :> "Hidden" @@ "id" :> "Id" @@ "is" :> "Is" @@
    "last" :> "Last" @@ "location" :> "Location" @@ "log" :> "Log" @@
    "lookup" :> "Lookup" @@ "matched" :> "Matched" @@
    "migration" :> "Migration" @@ "missed" :> "Missed" @@
    "modified" :> "Modified" @@ "name" :> "Name" @@ "new" :> "New" @@
    "normalized" :> "Normalized" @@ "number" :> "Number" @@
    "numbertype" :> "Numbertype" @@ "numer" :> "Numer" @@
    "nummer" :> "Nummer" @@ "pending" :> "Pending" @@ "phone" :> "Phone" @@
    "photo" :> "Photo" @@ "post" :> "Post" @@
    "presentation" :> "Presentation" @@ "priority" :> "Priority" @@
    "read" :> "Read" @@ "reason" :> "Reason" @@ "state" :> "State" @@
    "subject" :> "Subject" @@ "subscription" :> "Subscription" @@
    "time" :> "Time" @@ "transcription" :> "Transcription" @@
    "type" :> "Type" @@ "uri" :> "Uri" @@ "usage" :> "Usage" @@
    "users" :> "Users" @@ "via" :> "Via"

SplitName(name) == IF name \in DOMAIN NameWords THEN NameWords[name] ELSE <<name>>
Capitalize(w) == CapitalizeTable[w]

RECURSIVE JoinCapitalized(_)
\* ' '.join(w.capitalize() for w in words)
JoinCapitalized(words) ==
    IF words = <<>> THEN <<>>
    ELSE IF Len(words) = 1 THEN <<Capitalize(words[1])>>
    ELSE <<Capitalize(words[1]), " ">> \o JoinCapitalized(Tail(words))

\* value.rjust(width, '0') of a text of one-character chunks
RJust(chars, width) ==
    [k \in 1..(width - Len(chars)) |-> "0"] \o chars

-----------------------------------------------------------------------------
(* __str__ of the value types *)

\* PrettyEnum.__str__, with NumberType's override for the value 0
EnumStr(v) ==
    IF v.cls = "NumberType" /\ v.n = 0 THEN <<>>
    ELSE JoinCapitalized(EnumMembers(v.cls)[v.n])

RECURSIVE FlagNames(_, _, _)
\* the labels of the members (in definition order, from member k on) whose bit
\* is set in i, joined by ", "
FlagNames(members, k, i) ==
    IF k > Len(members) THEN <<>>
    ELSE LET rest == FlagNames(members, k + 1, i)
         IN  IF members[k].bit # 0 /\ BitSet(i, members[k].bit)
             THEN JoinCapitalized(members[k].name)
                  \o (IF rest = <<>> THEN <<>> ELSE <<",", " ">> \o rest)
             ELSE rest

RECURSIVE SumSet(_)
SumSet(S) == IF S = {} THEN 0 ELSE LET x == CHOOSE y \in S : TRUE IN x + SumSet(S \ {x})

\* CallFeatures.__str__'s replacements
FixCase(chunks) ==
    [k \in 1..Len(chunks) |->
        CASE chunks[k] = "Rtt" -> "RTT"
          [] chunks[k] = "Volte" -> "VoLTE"
          [] chunks[k] = "Wifi" -> "WiFi"
          [] OTHER -> chunks[k]]

\* PrettyFlag.__str__ (and CallFeatures.__str__): empty for 0, the number for
\* a value with no defined bit, else the labels of the set members followed
\* by the number the undefined bits make
FlagStr(v) ==
    LET known == FlagNames(FlagMembers(v.cls), 1, v.n)
        unknown == SumSet(UnknownBits(v.cls, v.n))
        text == IF v.n = 0 THEN <<>>
                ELSE IF known = <<>> THEN FormatInt(v.n)
                ELSE IF unknown # 0 THEN known \o <<",", " ">> \o FormatInt(unknown)
                ELSE known
    IN  IF v.cls = "CallFeatures" THEN FixCase(text) ELSE text

\* strftime('%d.%m.%Y') of an instant in tz (an instant of March 2024)
StrfDate(ms) == Pad2(LocalDay(ms) + 1) \o <<".", "0", "3", ".", "2", "0", "2", "4">>

\* strftime('%H:%M:%S') of an instant in tz
StrfTime(ms) ==
    LET s == (LocalMs(ms) % DAY) \div SECOND
    IN  Pad2(s \div 3600) \o <<":">> \o Pad2((s \div 60) % 60) \o <<":">> \o Pad2(s % 60)

\* strftime('%d.%m.%Y %H:%M:%S')
StrfDateTime(ms) == StrfDate(ms) \o <<" ">> \o StrfTime(ms)

\* str(timedelta(seconds=sec))
TimedeltaStr(sec) ==
    LET days == sec \div 86400
        s == sec % 86400
        hms == FormatInt(s \div 3600) \o <<":">> \o Pad2((s \div 60) % 60)
               \o <<":">> \o Pad2(s % 60)
    IN  IF days # 0
        THEN FormatInt(days) \o <<" ", "d", "a", "y">>
             \o (IF days \in {1, -1} THEN <<>> ELSE <<"s">>) \o <<",", " ">> \o hms
        ELSE hms

\* str(value) of an attribute value
ValueStr(v) ==
    CASE v.t = "enum" -> EnumStr(v)
      [] v.t = "flag" -> FlagStr(v)
      [] OTHER -> PyStr(v)

-----------------------------------------------------------------------------
(* PhoneCall.csv_header and PhoneCall.csv_row *)

\* the `fields` argument: not given (None), or a list of column names
NoFields == [given |-> FALSE, names |-> <<>>]
FieldList(names) == [given |-> TRUE, names |-> names]

\* `if fields is None: fields = cls.default_csv_fields`
EffectiveFields(fields) == IF fields.given THEN fields.names ELSE default_csv_fields

\* csv_header(fields): one label per column, no validation
csv_header(fields) ==
    LET names == EffectiveFields(fields)
    IN  [k \in 1..Len(names) |-> JoinCapitalized(SplitName(names[k]))]

csv_aliases == {"time"}

\* the columns of `fields` that are neither an alias nor a field of the record
UnknownColumns(names) ==
    ({names[k] : k \in 1..Len(names)} \ csv_aliases) \ FieldNames

\* bool(value) of an attribute value that is None or a str
Truthy(v) == v.t = "str" /\ v.s # <<>>

\* one arm of csv_row's match statement: the cell of column `field`
CsvCell(call, field, out_fields) ==
    LET value == IF field \in FieldNames THEN call[field] ELSE None
    IN  CASE field = "date" ->
                IF "time" \in out_fields THEN StrfDate(call["date"].ms)
                ELSE StrfDateTime(call["date"].ms)
          [] field = "time" -> StrfTime(call["date"].ms)
          [] field \notin {"date", "time"} /\ value.t = "datetime" -> StrfDateTime(value.ms)
          [] field \notin {"date", "time"} /\ value.t = "timedelta" ->
                RJust(TimedeltaStr(value.sec), 8)
          [] field = "formatted_numer" ->
                IF Truthy(value) THEN value.s
                ELSE IF Truthy(call["normalized_number"])
                     THEN call["normalized_number"].s ELSE call["number"].s
          [] field \notin {"date", "time", "formatted_numer"} /\ value.t = "bool" ->
                IF value.b THEN <<"Yes">> ELSE <<"No">>
          [] field \notin {"date", "time", "formatted_numer"} /\ value.t = "null" -> <<>>
          [] OTHER -> ValueStr(value)

\* csv_row without the check of the column names
csv_row_unvalidated(call, fields) ==
    LET names == EffectiveFields(fields)
        out_fields == {names[k] : k \in 1..Len(names)}
    IN  [err |-> "none",
         row |-> [k \in 1..Len(names) |-> CsvCell(call, names[k], out_fields)]]

\* csv_row that appends no cell for an attribute that is None
csv_row_skipping_none(call, fields) ==
    LET names == EffectiveFields(fields)
        out_fields == {names[k] : k \in 1..Len(names)}
        HasValue(name) == name \notin FieldNames \/ call[name] # None
        kept == SelectSeq(names, HasValue)
    IN  IF UnknownColumns(names) # {}
        THEN [err |-> "ValueError", row |-> <<>>]
        ELSE [err |-> "none",
              row |-> [k \in 1..Len(kept) |-> CsvCell(call, kept[k], out_fields)]]

\* csv_row(self, fields): [err, row]; a column list naming an unknown column
\* raises ValueError before the first cell is made
csv_row(call, fields) ==
    LET names == EffectiveFields(fields)
        out_fields == {names[k] : k \in 1..Len(names)}
    IN  IF UnknownColumns(names) # {}
        THEN [err |-> "ValueError", row |-> <<>>]
        ELSE [err |-> "none",
              row |-> [k \in 1..Len(names) |-> CsvCell(call, names[k], out_fields)]]

-----------------------------------------------------------------------------
(* Inputs *)

\* an opaque text, kept as one chunk
Text(s) == StrV(<<s>>)
\* the decimal text of a number, character by character
Num(i) == StrV(FormatInt(i))

\* local noon and local 23:57 of day d (days since 2024-03-01), as instants
Noon(d) == d * DAY + 12 * HOUR - CET_OFFSET
Late(d) == d * DAY + 23 * HOUR + 57 * MINUTE - CET_OFFSET

\* one exported call as the device writes it: every value a string, the
\* optional attributes left out
ExportedCall(ms) ==
    [date |-> Num(ms), phone_account_hidden |-> Num(0), photo_id |-> Num(0),
     subscription_component_name |-> Text("com.android.phone"),
     type |-> Num(1), presentation |-> Num(1), duration |-> Num(61),
     subscription_id |-> Num(1), is_read |-> Num(1), number |-> Text("+4312345"),
     features |-> Num(0), via_number |-> StrV(<<>>), last_modified |-> Num(ms),
     new |-> Num(0), missed_reason |-> Num(0),
     phone_account_address |-> StrV(<<>>), add_for_all_users |-> Num(1),
     block_reason |-> Num(0), priority |-> Num(0), countryiso |-> Text("AT"),
     is_call_log_phone_account_migration_pending |-> Num(0),
     post_dial_digits |-> StrV(<<>>), transcription_state |-> Num(0),
     _id |-> Num(5)]

With(obj, key, value) ==
    [k \in DOMAIN obj \cup {key} |-> IF k = key THEN value ELSE obj[k]]
Without(obj, key) == [k \in DOMAIN obj \ {key} |-> obj[k]]

PlainCall == ExportedCall(Noon(4))
\* the same call with optional attributes present
FullCall ==
    With(With(With(With(PlainCall, "numbertype", Num(2)),
                   "display_name", Text("Ada")), "subject", Text("hello")),
         "data_usage", IntV(7))

\* raw values tried in place of a field of PlainCall
Variants == {
    <<"type", Num(7)>>, <<"type", Num(8)>>, <<"type", Num(0)>>, <<"type", IntV(3)>>,
    <<"type", IntV(9)>>, <<"type", Text("x")>>, <<"type", None>>,
    <<"presentation", Num(6)>>, <<"presentation", IntV(5)>>,
    <<"block_reason", Num(8)>>, <<"block_reason", Num(7)>>,
    <<"numbertype", Num(0)>>, <<"numbertype", Num(20)>>, <<"numbertype", Num(21)>>,
    <<"numbertype", None>>,
    <<"missed_reason", Num(65536 + 131072)>>, <<"missed_reason", Num(8)>>,
    <<"missed_reason", Num(65536 + 8)>>, <<"missed_reason", IntV(1)>>,
    <<"missed_reason", IntV(16)>>,
    <<"features", Num(64 + 8 + 1)>>, <<"features", Num(128)>>, <<"features", Num(129)>>,
    <<"duration", Num(0)>>, <<"duration", Num(3661)>>, <<"duration", Num(-5)>>,
    <<"duration", IntV(5)>>, <<"duration", IntV(-90000)>>, <<"duration", None>>,
    <<"duration", StrV(<<>>)>>,
    <<"date", None>>, <<"date", IntV(Noon(2))>>, <<"date", Text("yesterday")>>,
    <<"new", Num(1)>>, <<"new", BoolV(TRUE)>>, <<"new", Text("yes")>>, <<"new", IntV(1)>>,
    <<"photo_id", IntV(7)>>, <<"photo_id", Text("x")>>, <<"photo_id", None>>,
    <<"number", IntV(43)>>, <<"subject", None>>, <<"display_name", Text("Bob")>>,
    <<"data_usage", Num(12)>> }

\* fields left out of PlainCall or FullCall
Omitted == {"date", "new", "_id", "type", "duration"}

DecodeObjs ==
    {PlainCall, FullCall}
    \cup {With(PlainCall, v[1], v[2]) : v \in Variants}
    \cup {Without(PlainCall, key) : key \in Omitted}
    \cup {Without(FullCall, key) : key \in {"subject", "numbertype", "new"}}

WalkObjs == {ExportedCall(ms) : ms \in {Noon(0), Noon(2), Late(2), Noon(4)}}

LibObjs == {PlainCall, FullCall, With(With(PlainCall, "new", BoolV(TRUE)), "duration", Num(3661))}

\* all sequences over S of a length up to n
SeqsUpTo(S, n) == UNION {[1..m -> S] : m \in 0..n}

\* the batches of a length up to n with at most one object outside
\* {PlainCall, FullCall}
DecodeBatches(n) ==
    UNION {{[j \in 1..m |-> IF j = p THEN x ELSE core[j]] :
                p \in 1..m, x \in DecodeObjs, core \in [1..m -> {PlainCall, FullCall}]}
           : m \in 1..n}

\* --start / --stop: None or a calendar day
DateArgs == {None} \cup {Date(d) : d \in {0, 2, 3}}

Outputs == {"Path", "None", "TextIO"}

\* column lists handed to csv_header and csv_row by a caller
FieldLists == {
    NoFields, FieldList(<<>>), FieldList(<<"date">>), FieldList(<<"bogus">>),
    FieldList(<<"date", "time", "bogus">>),
    FieldList(<<"time", "new", "last_modified", "subject", "duration", "_id">>) }

-----------------------------------------------------------------------------
(* State *)

VARIABLES
    entry,       \* the entry point called: "convert_to_csv" or "from_json"
    infile,      \* the parsed JSON: [multiple, objs]; a single dict is
                 \* [multiple |-> FALSE, objs |-> <<obj>>]
    output,      \* convert_to_csv's output argument: a Path, None or a TextIO
    start_date,  \* convert_to_csv's start_date argument
    stop_date,   \* convert_to_csv's stop_date argument
    pc,          \* "decode", "open", "walk", "done", "returned", "raised"
    calls,       \* from_json's list `calls`
    fileOpened,  \* the output Path has been opened for writing (truncated)
    sink,        \* the rows written through csv.writer, header first
    stdout,      \* the lines print()ed by from_json
    exc,         \* the exception that left the program, if any
    i,           \* position of the walk `for call in calls`, 1-based
    api          \* the last csv_header / csv_row call of a library user

vars == <<entry, infile, output, start_date, stop_date, pc, calls, fileOpened,
          sink, stdout, exc, i, api>>

NoExc == [type |-> "none", op |-> "", key |-> "", raw |-> None, names |-> {}, index |-> 0]
NoCall == [op |-> "none", fields |-> NoFields, err |-> "none", out |-> <<>>]

Batch(objs) == [multiple |-> TRUE, objs |-> objs]
Single(obj) == [multiple |-> FALSE, objs |-> <<obj>>]

Start ==
    /\ pc = "decode" /\ calls = <<>> /\ fileOpened = FALSE /\ sink = <<>>
    /\ stdout = <<>> /\ exc = NoExc /\ i = 0 /\ api = NoCall

\* convert_to_csv on a batch of well-formed calls, with a date range
InitWalk ==
    /\ entry = "convert_to_csv"
    /\ infile \in {Batch(objs) : objs \in SeqsUpTo(WalkObjs, MaxCalls)}
    /\ output = "None"
    /\ start_date \in DateArgs /\ stop_date \in DateArgs
    /\ Start

\* convert_to_csv on a batch or a single object, well-formed or not
InitDecode ==
    /\ entry = "convert_to_csv"
    /\ infile \in {Batch(objs) : objs \in {<<>>} \cup DecodeBatches(MaxBatch)}
                  \cup {Single(obj) : obj \in DecodeObjs}
    /\ output \in Outputs
    /\ start_date = None /\ stop_date = None
    /\ Start

\* a caller of from_json, csv_header and csv_row
InitLibrary ==
    /\ entry = "from_json"
    /\ infile \in {Batch(objs) : objs \in SeqsUpTo(LibObjs, MaxBatch)}
                  \cup {Single(obj) : obj \in LibObjs}
    /\ output = "None"
    /\ start_date = None /\ stop_date = None
    /\ Start

Init == InitWalk \/ InitDecode \/ InitLibrary

-----------------------------------------------------------------------------
(* from_json *)

\* the lines the except clause prints
Report(r, multiple, index) ==
    <<[line |-> "Failed parsing field", key |-> r.key, raw |-> r.raw, index |-> 0]>>
    \o (IF multiple
        THEN <<[line |-> "Call", key |-> "", raw |-> None, index |-> index]>>
        ELSE <<>>)

\* one iteration of `for obj in ...` that appends a call
DecodeOk ==
    /\ pc = "decode"
    /\ Len(calls) < Len(infile.objs)
    /\ LET r == DecodeObj(infile.objs[Len(calls) + 1])
       IN  /\ r.err = "none"
           /\ calls' = Append(calls, PhoneCall(r.call))
    /\ UNCHANGED <<entry, infile, output, start_date, stop_date, pc, fileOpened,
                   sink, stdout, exc, i, api>>

\* one iteration that raises: the exception leaves from_json (and
\* convert_to_csv); a TypeError is reported on the way
DecodeRaise ==
    /\ pc = "decode"
    /\ Len(calls) < Len(infile.objs)
    /\ LET r == DecodeObj(infile.objs[Len(calls) + 1])
       IN  /\ r.err # "none"
           /\ stdout' = IF Reported(r.err)
                        THEN stdout \o Report(r, infile.multiple, Len(calls) + 1)
                        ELSE stdout
           /\ exc' = [type |-> r.err, op |-> "from_json", key |-> r.key, raw |-> r.raw,
                      names |-> MessageNames(r.err, FieldOf(r.key), r.raw),
                      index |-> Len(calls) + 1]
    /\ pc' = "raised"
    /\ UNCHANGED <<entry, infile, output, start_date, stop_date, calls, fileOpened,
                   sink, i, api>>

\* from_json returns the list (or the single call)
DecodeReturn ==
    /\ pc = "decode"
    /\ Len(calls) = Len(infile.objs)
    /\ pc' = IF entry = "convert_to_csv" THEN "open" ELSE "returned"
    /\ UNCHANGED <<entry, infile, output, start_date, stop_date, calls, fileOpened,
                   sink, stdout, exc, i, api>>

-----------------------------------------------------------------------------
(* convert_to_csv *)

\* start_date after `datetime.combine(start_date, time(), tzinfo=tz)`
StartInstant == CombineMidnight(start_date)
\* stop_date after the combine and `stop_date += timedelta(days=1)`
StopInstant == CombineMidnight(stop_date) + DAY

\* `start_date and call.date < start_date`
OlderThanStart(call) == start_date # None /\ call["date"].ms < StartInstant
\* `stop_date and call.date >= stop_date`
NewerThanStop(call) == stop_date # None /\ call["date"].ms >= StopInstant

\* OpenOutput placed before the call of from_json
OpenOutputBeforeDecode ==
    /\ pc = "decode" /\ entry = "convert_to_csv" /\ sink = <<>>
    /\ fileOpened' = (output = "Path")
    /\ sink' = <<csv_header(NoFields)>>
    /\ UNCHANGED <<entry, infile, output, start_date, stop_date, pc, calls, stdout,
                   exc, i, api>>

\* the with statement is entered: the Path is opened, the header written
OpenOutput ==
    /\ pc = "open"
    /\ fileOpened' = (output = "Path")
    /\ sink' = <<csv_header(NoFields)>>
    /\ i' = 1
    /\ pc' = "walk"
    /\ UNCHANGED <<entry, infile, output, start_date, stop_date, calls, stdout, exc, api>>

\* `for call in calls` when from_json returned a single PhoneCall
IterRaise ==
    /\ pc = "walk"
    /\ ~infile.multiple
    /\ exc' = [NoExc EXCEPT !.type = "TypeError", !.op = "convert_to_csv"]
    /\ pc' = "raised"
    /\ UNCHANGED <<entry, infile, output, start_date, stop_date, calls, fileOpened,
                   sink, stdout, i, api>>

\* WalkBreak with `continue` in place of `break`
WalkBreakContinues ==
    /\ pc = "walk" /\ infile.multiple /\ i <= Len(calls)
    /\ OlderThanStart(calls[i])
    /\ i' = i + 1
    /\ UNCHANGED <<entry, infile, output, start_date, stop_date, pc, calls, fileOpened,
                   sink, stdout, exc, api>>

\* the iteration at a call older than start: break
WalkBreak ==
    /\ pc = "walk" /\ infile.multiple /\ i <= Len(calls)
    /\ OlderThanStart(calls[i])
    /\ pc' = "done"
    /\ UNCHANGED <<entry, infile, output, start_date, stop_date, calls, fileOpened,
                   sink, stdout, exc, i, api>>

\* the iteration at a call at or after the stop boundary: continue
WalkSkip ==
    /\ pc = "walk" /\ infile.multiple /\ i <= Len(calls)
    /\ ~OlderThanStart(calls[i])
    /\ NewerThanStop(calls[i])
    /\ i' = i + 1
    /\ UNCHANGED <<entry, infile, output, start_date, stop_date, pc, calls, fileOpened,
                   sink, stdout, exc, api>>

\* the iteration that writes the call's row
WalkEmit ==
    /\ pc = "walk" /\ infile.multiple /\ i <= Len(calls)
    /\ ~OlderThanStart(calls[i])
    /\ ~NewerThanStop(calls[i])
    /\ LET r == csv_row(calls[i], NoFields)
       IN  IF r.err = "none"
           THEN /\ sink' = Append(sink, r.row)
                /\ i' = i + 1
                /\ UNCHANGED <<pc, exc>>
           ELSE /\ exc' = [NoExc EXCEPT !.type = r.err, !.op = "csv_row"]
                /\ pc' = "raised"
                /\ UNCHANGED <<sink, i>>
    /\ UNCHANGED <<entry, infile, output, start_date, stop_date, calls, fileOpened,
                   stdout, api>>

\* the loop is exhausted: the with block is left
WalkEnd ==
    /\ pc = "walk" /\ infile.multiple /\ i > Len(calls)
    /\ pc' = "done"
    /\ UNCHANGED <<entry, infile, output, start_date, stop_date, calls, fileOpened,
                   sink, stdout, exc, i, api>>

-----------------------------------------------------------------------------
(* csv_header and csv_row called on what from_json returned *)

CsvHeaderCall ==
    /\ pc = "returned"
    /\ \E f \in FieldLists :
          api' = [op |-> "csv_header", fields |-> f, err |-> "none", out |-> csv_header(f)]
    /\ UNCHANGED <<entry, infile, output, start_date, stop_date, pc, calls, fileOpened,
                   sink, stdout, exc, i>>

CsvRowCall ==
    /\ pc = "returned"
    /\ \E k \in 1..Len(calls), f \in FieldLists :
          LET r == csv_row(calls[k], f)
          IN  api' = [op |-> "csv_row", fields |-> f, err |-> r.err, out |-> r.row]
    /\ UNCHANGED <<entry, infile, output, start_date, stop_date, pc, calls, fileOpened,
                   sink, stdout, exc, i>>

Next ==
    \/ DecodeOk
    \/ DecodeRaise
    \/ DecodeReturn
    \/ OpenOutput
    \/ IterRaise
    \/ WalkBreak
    \/ WalkSkip
    \/ WalkEmit
    \/ WalkEnd
    \/ CsvHeaderCall
    \/ CsvRowCall

Spec == Init /\ [][Next]_vars

-----------------------------------------------------------------------------
(* Vocabulary of the properties *)

Objs == infile.objs

EnumFields == {"type", "presentation", "block_reason", "numbertype"}
FlagFields == {"missed_reason", "features"}

\* the raw value is a non-negative integer, as text or as a number
IsNat(v) ==
    \/ v.t = "int" /\ v.n >= 0
    \/ v.t = "str" /\ v.s # <<>> /\ \A k \in 1..Len(v.s) : IsDigit(v.s[k])
NatOf(v) == IF v.t = "int" THEN v.n ELSE ParseDigits(v.s, 0)

\* the raw value is an integer, as text or as a number
IsInteger(v) == PyInt(v).err = "none" /\ v.t \in {"int", "str"}

\* a raw value the export schema allows for a field of the given type
ValidRaw(type, v) ==
    CASE type \in {"datetime", "timedelta", "int"} -> IsNat(v)
      [] type \in EnumClasses -> IsNat(v) /\ NatOf(v) \in DOMAIN EnumMembers(type)
      [] type \in FlagClasses -> IsNat(v) /\ UnknownBits(type, NatOf(v)) = {}
      [] type = "bool" -> v.t \in {"str", "bool"}
      [] type = "str" -> v.t \in {"str", "int"}

\* a valid input record: the required fields present, every value valid
ValidObj(obj) ==
    /\ RequiredFields \subseteq DOMAIN obj
    /\ DOMAIN obj \subseteq FieldNames
    /\ \A f \in DOMAIN obj : ValidRaw(FieldOf(f).type, obj[f])

AllValid == \A k \in 1..Len(Objs) : ValidObj(Objs[k])

\* the decoded calls are in descending order of their timestamps
SortedDescending ==
    \A j \in 1..(Len(calls) - 1) : calls[j]["date"].ms >= calls[j + 1]["date"].ms

\* the call's calendar day in the reference timezone lies in [start, stop]
InRangeByDay(call) ==
    /\ start_date # None => LocalDay(call["date"].ms) >= start_date.day
    /\ stop_date # None => LocalDay(call["date"].ms) <= stop_date.day

\* the default rows of a sequence of calls
RowsOf(cs) == [k \in 1..Len(cs) |-> csv_row(cs[k], NoFields).row]

\* every name an error report holds: the exception's message, the printed lines
NamedInError == exc.names \cup {stdout[j].key : j \in 1..Len(stdout)}

DecodeFailed == pc = "raised" /\ exc.op = "from_json"

-----------------------------------------------------------------------------
(* Properties *)

\* C1: for a batch of valid records in descending order, and any start and
\* stop, convert_to_csv writes after the header exactly the rows of the
\* records whose calendar day (reference timezone) is on or after start and
\* on or before stop, in input order.
InvC1 ==
    (pc = "done" /\ infile.multiple /\ AllValid /\ SortedDescending)
        => sink = <<csv_header(NoFields)>> \o RowsOf(SelectSeq(calls, InRangeByDay))

\* C2: a record whose enumerated field carries an integer that is no member
\* of the enumeration is never decoded into a call, and when decoding fails
\* at that field the error names the field.
InvC2 ==
    /\ \A k \in 1..Len(calls) : \A f \in EnumFields :
          calls[k][f] # None
              => calls[k][f].t = "enum" /\ calls[k][f].n \in DOMAIN EnumMembers(calls[k][f].cls)
    /\ \A k \in 1..Len(Objs) : \A f \in EnumFields \cap DOMAIN Objs[k] :
          (IsInteger(Objs[k][f]) /\ PyInt(Objs[k][f]).n \notin DOMAIN EnumMembers(FieldOf(f).type))
              => /\ Len(calls) < k
                 /\ (DecodeFailed /\ exc.index = k /\ exc.key = f) => f \in NamedInError

\* C3: a flag field decodes iff every set bit of the raw integer is a defined
\* flag, and then to exactly those flags; an integer with an undefined bit is
\* a decode error (so no decoded call holds an undefined bit).
InvC3 ==
    /\ \A k \in 1..Len(calls) : \A f \in FlagFields :
          /\ calls[k][f].t = "flag"
          /\ UnknownBits(calls[k][f].cls, calls[k][f].n) = {}
          /\ IsNat(Objs[k][f]) => calls[k][f].n = NatOf(Objs[k][f])
    /\ \A k \in 1..Len(Objs) : \A f \in FlagFields \cap DOMAIN Objs[k] :
          (IsNat(Objs[k][f]) /\ UnknownBits(FieldOf(f).type, NatOf(Objs[k][f])) # {})
              => Len(calls) < k

ThmC5 ==
    /\ \A k \in 1..Len(Objs) :
          /\ ~(RequiredFields \subseteq DOMAIN Objs[k])
                => Len(calls) < k /\ (pc # "decode" => DecodeFailed /\ exc.type # "none")
          /\ k <= Len(calls)
                => \A f \in OptionalFields \ DOMAIN Objs[k] : calls[k][f] = FieldOf(f).default
    /\ DecodeFailed
          => ~(exc.key \in OptionalFields /\ exc.key \notin DOMAIN Objs[exc.index])

WitC5 ==
    /\ DecodeFailed /\ exc.type = "KeyError" /\ exc.index = 2
    /\ Len(calls) = 1
    /\ "display_name" \notin DOMAIN Objs[1]
    /\ calls[1]["display_name"] = StrV(<<>>)

\* C6: in batch mode, when decoding the k-th object fails (missing required
\* field, unknown code or failed coercion), the calls before it were decoded
\* in order, nothing after it is decoded, no list is returned, and the field
\* name, the raw value and the 1-based index k have been reported.
InvC6 ==
    (DecodeFailed /\ infile.multiple)
        => /\ Len(calls) = exc.index - 1
           /\ \E j \in 1..Len(stdout) : stdout[j].key = exc.key /\ stdout[j].raw = exc.raw
           /\ \E j \in 1..Len(stdout) : stdout[j].line = "Call" /\ stdout[j].index = exc.index

\* C7: for valid input records (optional fields present or not), neither
\* decoding nor rendering with the default columns raises, and every default
\* row has as many cells as the header.
ThmC7 ==
    AllValid
        => /\ exc.op \notin {"from_json", "csv_row"}
           /\ pc \in {"open", "walk", "done", "returned"} => Len(calls) = Len(Objs)
           /\ \A j \in 2..Len(sink) : Len(sink[j]) = Len(sink[1])
           /\ (api.op = "csv_row" /\ ~api.fields.given)
                 => api.err = "none" /\ Len(api.out) = Len(csv_header(NoFields))

WitC7 ==
    /\ pc = "done" /\ AllValid /\ Len(sink) = 3
    /\ "numbertype" \notin DOMAIN Objs[1]
    /\ Len(sink[2]) = 12

\* C8: every decoded call has a duration >= 0, whatever the raw duration.
InvC8 ==
    \A k \in 1..Len(calls) : calls[k]["duration"].sec >= 0

RECURSIVE EmittedUpTo(_)
\* the calls among the first n that the walk emits: not older than start, not
\* at or after the stop boundary, and with no call older than start before
EmittedUpTo(n) ==
    IF n = 0 THEN <<>>
    ELSE IF /\ ~NewerThanStop(calls[n])
            /\ \A k \in 1..n : ~OlderThanStart(calls[k])
         THEN Append(EmittedUpTo(n - 1), calls[n])
         ELSE EmittedUpTo(n - 1)

\* C9 as stated: at a call older than start the walk ends and writes nothing;
\* at a call at or after the stop boundary the walk writes nothing and never
\* ends.
InvC9 ==
    [][(pc = "walk" /\ infile.multiple /\ i <= Len(calls))
          => /\ OlderThanStart(calls[i]) => pc' = "done" /\ sink' = sink
             /\ NewerThanStop(calls[i]) => pc' = "walk" /\ sink' = sink]_vars

\* C9 amended: for any input order, the rows written are those of the calls
\* inside the boundaries that no call older than start precedes: the first
\* call older than start ends the walk for good, a call at or after the stop
\* boundary that is not older than start is only skipped.
ThmC9 ==
    (pc \in {"walk", "done"} /\ infile.multiple)
        => sink = <<csv_header(NoFields)>>
                  \o RowsOf(EmittedUpTo(IF pc = "walk" THEN i - 1 ELSE Len(calls)))

WitC9 ==
    /\ pc = "done" /\ infile.multiple /\ Len(calls) = 3
    /\ NewerThanStop(calls[1]) /\ ~OlderThanStart(calls[1])
    /\ OlderThanStart(calls[2])
    /\ ~OlderThanStart(calls[3]) /\ ~NewerThanStop(calls[3])
    /\ Len(sink) = 1

====
